---- MODULE Spec2Model ----
(***************************************************************************)
(* Model of the OCM graph (src/src/graph.rs) and of its builders           *)
(* (src/src/graph_builder.rs).                                             *)
(*                                                                         *)
(* One set of variables carries four specifications:                       *)
(*   Spec            the Graph API: new, add_edge, does_edge_exist and the *)
(*                   two crossing counters, called in any order            *)
(*   SpecNoCrossing  GraphBuilder::build_graph_with_fixed_nodes_and_no_    *)
(*                   crossings, statement by statement                     *)
(*   SpecRandom      GraphBuilder::build_random_graph, draw by draw        *)
(*   SpecFile        GraphBuilder::build_graph_from_file, line by line     *)
(* A Rust panic is the result [kind |-> "panic"]; Ok and Err are results   *)
(* of kind "Ok" and "Err".                                                 *)
(***************************************************************************)
EXTENDS Integers, Sequences, FiniteSets, TLC

VARIABLES
    graph,                        \* the Graph under construction / queried
    args,                         \* the arguments of the entry point called
    op,                           \* the last Graph method called, with its arguments
    ret,                          \* what the last call returned
    pc,                           \* position in the entry point's code
    adds,                         \* number of add_edge calls made (Spec)
    randomly_ordered_free_nodes,  \* local of the no-crossing builder
    fixed_node_index,             \* loop variable of the no-crossing builder
    loop_end,                     \* exclusive end of the no-crossing builder's loop range
    round,                        \* loop variable `_` of build_random_graph
    rejects,                      \* duplicates drawn so far by build_random_graph
    read,                         \* the lines the file iterator has yielded so far
    p_line_info                   \* the parsed header of build_graph_from_file

vars == <<graph, args, op, ret, pc, adds, randomly_ordered_free_nodes,
          fixed_node_index, loop_end, round, rejects, read, p_line_info>>

----------------------------------------------------------------------------
(* Bounds of the model *)

\* largest number_of_fixed_nodes given to Graph::new and build_random_graph
MaxFixed == 2
\* largest number_of_free_nodes given to Graph::new and build_random_graph
MaxFree == 2
\* add_edge calls made on one graph in Spec
MaxAdds == 2
\* longest ordering handed to compute_number_of_crossings_for_ordering
MaxOrderingLen == 3
\* largest argument of the no-crossing builder
MaxNoCrossing == 4
\* duplicates the random builder may draw before the model stops counting them
MaxRejects == 2
\* lines read from one file
MaxLines == 5
\* width of usize in the model (64 on the targets the crate builds for; the
\* model checker's integers are 32 bits wide, so the width is scaled down)
UsizeBits == 16

USIZE_MAX == 2^UsizeBits - 1

----------------------------------------------------------------------------
(* Results *)

Ok(v) == [kind |-> "Ok", val |-> v]
Err(e) == [kind |-> "Err", val |-> e]
Panic(msg) == [kind |-> "panic", val |-> msg]
NoResult == [kind |-> "none", val |-> "none"]

Some(v) == [some |-> TRUE, val |-> v]
None == [some |-> FALSE, val |-> 0]

\* usize subtraction: overflow checks on (debug) it panics, off (release) it wraps
wrapping_sub(a, b) == (a - b + USIZE_MAX + 1) % (USIZE_MAX + 1)

\* usize checked_mul
checked_mul(a, b) == IF a * b > USIZE_MAX THEN None ELSE Some(a * b)

----------------------------------------------------------------------------
(* Graph, src/src/graph.rs *)

Graph_new(number_of_fixed_nodes, number_of_free_nodes) ==
    LET number_of_nodes == number_of_fixed_nodes + number_of_free_nodes
    IN  [number_of_nodes |-> number_of_nodes,
         number_of_fixed_nodes |-> number_of_fixed_nodes,
         number_of_free_nodes |-> number_of_free_nodes,
         number_of_edges |-> 0,
         adjacency_list |-> [n \in 0..(number_of_nodes - 1) |-> {}]]

\* add_edge with the second insertion forgotten
add_edge_one_sided(g, node_index1, node_index2) ==
    IF node_index1 >= g.number_of_nodes \/ node_index2 >= g.number_of_nodes
    THEN [graph |-> g, ret |-> Err("IndexError")]
    ELSE LET inserted_successfully1 == node_index2 \notin g.adjacency_list[node_index1]
             list1 == [g.adjacency_list EXCEPT ![node_index1] = @ \cup {node_index2}]
         IN  [graph |-> [g EXCEPT !.adjacency_list = list1,
                                  !.number_of_edges =
                                      IF inserted_successfully1 THEN @ + 1 ELSE @],
              ret |-> Ok(inserted_successfully1)]

\* add_edge answering Ok(true) also for an edge that was already there
add_edge_always_true(g, node_index1, node_index2) ==
    IF node_index1 >= g.number_of_nodes \/ node_index2 >= g.number_of_nodes
    THEN [graph |-> g, ret |-> Err("IndexError")]
    ELSE LET inserted_successfully1 == node_index2 \notin g.adjacency_list[node_index1]
             list1 == [g.adjacency_list EXCEPT ![node_index1] = @ \cup {node_index2}]
             inserted_successfully2 == node_index1 \notin list1[node_index2]
             list2 == [list1 EXCEPT ![node_index2] = @ \cup {node_index1}]
         IN  [graph |-> [g EXCEPT !.adjacency_list = list2,
                                  !.number_of_edges =
                                      IF inserted_successfully1 /\ inserted_successfully2
                                      THEN @ + 1 ELSE @],
              ret |-> Ok(TRUE)]

\* Returns the graph after the call and the call's result.
add_edge(g, node_index1, node_index2) ==
    IF node_index1 >= g.number_of_nodes \/ node_index2 >= g.number_of_nodes
    THEN [graph |-> g, ret |-> Err("IndexError")]
    ELSE LET inserted_successfully1 == node_index2 \notin g.adjacency_list[node_index1]
             list1 == [g.adjacency_list EXCEPT ![node_index1] = @ \cup {node_index2}]
             inserted_successfully2 == node_index1 \notin list1[node_index2]
             list2 == [list1 EXCEPT ![node_index2] = @ \cup {node_index1}]
         IN  [graph |-> [g EXCEPT !.adjacency_list = list2,
                                  !.number_of_edges =
                                      IF inserted_successfully1 /\ inserted_successfully2
                                      THEN @ + 1 ELSE @],
              ret |-> Ok(inserted_successfully1)]

does_edge_exist(g, index1, index2) ==
    IF index1 >= g.number_of_nodes \/ index2 >= g.number_of_nodes
    THEN Err("IndexError")
    ELSE Ok(index2 \in g.adjacency_list[index1])

\* The iterations of the four nested loops of both crossing counters: the
\* adjacency sets hold no duplicates, so each tuple is visited exactly once.
loop_iterations(g) ==
    {t \in (0..(g.number_of_fixed_nodes - 1)) \X (0..(g.number_of_fixed_nodes - 1))
            \X (0..(g.number_of_nodes - 1)) \X (0..(g.number_of_nodes - 1)) :
        /\ t[1] < t[2]
        /\ t[3] \in g.adjacency_list[t[1]]
        /\ t[4] \in g.adjacency_list[t[2]]}

compute_number_of_crossings_with_default_ordering(g) ==
    Ok(Cardinality({t \in loop_iterations(g) : t[4] < t[3]}))

\* the validation with its second test (the set comparison) left out
ordering_is_accepted_by_length(g, ordering) ==
    Len(ordering) = g.number_of_free_nodes

\* the two tests at the head of compute_number_of_crossings_for_ordering
ordering_is_accepted(g, ordering) ==
    /\ Len(ordering) = g.number_of_free_nodes
    /\ {ordering[k] : k \in 1..Len(ordering)}
           = g.number_of_fixed_nodes..(g.number_of_nodes - 1)

\* the HashMap filled by the enumerate loop: a later entry overwrites an earlier one
positions(ordering) ==
    [free_node_index \in {ordering[k] : k \in 1..Len(ordering)} |->
        (CHOOSE k \in 1..Len(ordering) :
            /\ ordering[k] = free_node_index
            /\ \A m \in (k + 1)..Len(ordering) : ordering[m] # free_node_index) - 1]

\* the crossing test of compute_number_of_crossings_for_ordering turned non-strict
counts_as_crossing_non_strict(position1, position2) == position2 <= position1

\* the crossing test of compute_number_of_crossings_for_ordering
counts_as_crossing(position1, position2) == position2 < position1

compute_number_of_crossings_for_ordering(g, ordering) ==
    IF ~ordering_is_accepted(g, ordering)
    THEN Err("ValueError")
    ELSE LET pos == positions(ordering)
             its == loop_iterations(g)
         IN  IF \E t \in its : t[3] \notin DOMAIN pos \/ t[4] \notin DOMAIN pos
             THEN Panic("A position must have been found")
             ELSE Ok(Cardinality({t \in its : counts_as_crossing(pos[t[3]], pos[t[4]])}))

----------------------------------------------------------------------------
(* Spec: a graph made by Graph::new, then any calls of its methods *)

NoOp == [name |-> "none", index1 |-> 0, index2 |-> 0, ordering |-> <<>>,
         existed |-> FALSE, edges_before |-> 0]

NoArgs == [number_of_fixed_nodes |-> 0, number_of_free_nodes |-> 0,
           number_of_edges |-> 0]

\* values the variables of the other entry points keep while they are not running
BuilderLocalsIdle ==
    /\ randomly_ordered_free_nodes = <<>>
    /\ fixed_node_index = 0
    /\ loop_end = 0
    /\ round = 0
    /\ rejects = 0
    /\ read = <<>>
    /\ p_line_info = None

RECURSIVE SeqsUpTo(_, _)
\* the sequences over S of length at most n
SeqsUpTo(S, n) ==
    IF n = 0 THEN {<<>>}
    ELSE LET shorter == SeqsUpTo(S, n - 1)
         IN  shorter \cup {Append(q, x) : q \in shorter, x \in S}

\* the free range of g, as a set
FreeRange(g) == g.number_of_fixed_nodes..(g.number_of_nodes - 1)

\* the orderings tried on g: every sequence of at most MaxOrderingLen indices
\* taken from the free range and the index on either side of it
OrderingInputs(g) ==
    LET low == IF g.number_of_fixed_nodes = 0 THEN 0 ELSE g.number_of_fixed_nodes - 1
    IN  SeqsUpTo(low..g.number_of_nodes, MaxOrderingLen)

Init ==
    /\ \E number_of_fixed_nodes \in 0..MaxFixed, number_of_free_nodes \in 0..MaxFree :
          /\ graph = Graph_new(number_of_fixed_nodes, number_of_free_nodes)
          /\ args = [NoArgs EXCEPT !.number_of_fixed_nodes = number_of_fixed_nodes,
                                   !.number_of_free_nodes = number_of_free_nodes]
    /\ op = NoOp
    /\ ret = NoResult
    /\ pc = "api"
    /\ adds = 0
    /\ BuilderLocalsIdle

\* graph.add_edge(i, j), for every index up to the first one out of bounds
AddEdge ==
    /\ pc = "api"
    /\ adds < MaxAdds
    /\ \E node_index1 \in 0..graph.number_of_nodes, node_index2 \in 0..graph.number_of_nodes :
          LET r == add_edge(graph, node_index1, node_index2)
          IN  /\ graph' = r.graph
              /\ ret' = r.ret
              /\ op' = [NoOp EXCEPT !.name = "add_edge",
                                    !.index1 = node_index1,
                                    !.index2 = node_index2,
                                    !.existed =
                                        /\ node_index1 < graph.number_of_nodes
                                        /\ node_index2 < graph.number_of_nodes
                                        /\ node_index2 \in graph.adjacency_list[node_index1],
                                    !.edges_before = graph.number_of_edges]
    /\ adds' = adds + 1
    /\ pc' = "returned"
    /\ UNCHANGED <<args, randomly_ordered_free_nodes, fixed_node_index, loop_end,
                   round, rejects, read, p_line_info>>

\* graph.does_edge_exist(i, j)
DoesEdgeExist ==
    /\ pc = "api"
    /\ \E index1 \in 0..graph.number_of_nodes, index2 \in 0..graph.number_of_nodes :
          /\ ret' = does_edge_exist(graph, index1, index2)
          /\ op' = [NoOp EXCEPT !.name = "does_edge_exist",
                                !.index1 = index1, !.index2 = index2]
    /\ pc' = "returned"
    /\ UNCHANGED <<graph, args, adds, randomly_ordered_free_nodes, fixed_node_index,
                   loop_end, round, rejects, read, p_line_info>>

\* graph.compute_number_of_crossings_with_default_ordering()
ComputeDefault ==
    /\ pc = "api"
    /\ ret' = compute_number_of_crossings_with_default_ordering(graph)
    /\ op' = [NoOp EXCEPT !.name = "compute_default"]
    /\ pc' = "returned"
    /\ UNCHANGED <<graph, args, adds, randomly_ordered_free_nodes, fixed_node_index,
                   loop_end, round, rejects, read, p_line_info>>

\* graph.compute_number_of_crossings_for_ordering(&ordering)
ComputeForOrdering ==
    /\ pc = "api"
    /\ \E ordering \in OrderingInputs(graph) :
          /\ ret' = compute_number_of_crossings_for_ordering(graph, ordering)
          /\ op' = [NoOp EXCEPT !.name = "compute_for_ordering", !.ordering = ordering]
    /\ pc' = "returned"
    /\ UNCHANGED <<graph, args, adds, randomly_ordered_free_nodes, fixed_node_index,
                   loop_end, round, rejects, read, p_line_info>>

\* the caller takes the result; the graph is ready for the next call
Return ==
    /\ pc = "returned"
    /\ pc' = "api"
    /\ op' = NoOp
    /\ ret' = NoResult
    /\ UNCHANGED <<graph, args, adds, randomly_ordered_free_nodes, fixed_node_index,
                   loop_end, round, rejects, read, p_line_info>>

Next ==
    \/ AddEdge
    \/ DoesEdgeExist
    \/ ComputeDefault
    \/ ComputeForOrdering
    \/ Return

Spec == Init /\ [][Next]_vars

----------------------------------------------------------------------------
(* Claims about the Graph API, checked under Spec *)

\* the ascending free range [number_of_fixed_nodes, number_of_nodes) as an ordering
AscendingFreeRange(g) ==
    [k \in 1..g.number_of_free_nodes |-> g.number_of_fixed_nodes + k - 1]

\* the undirected edges stored in the adjacency structure, a loop {u} included
StoredEdges(g) ==
    {e \in {{u, v} : u \in 0..(g.number_of_nodes - 1), v \in 0..(g.number_of_nodes - 1)} :
        \E u \in e : \E v \in e : e = {u, v} /\ v \in g.adjacency_list[u]}

\* every edge joins a fixed index to a free index
AllEdgesFixedFree(g) ==
    \A u \in 0..(g.number_of_nodes - 1) : \A v \in g.adjacency_list[u] :
        (u < g.number_of_fixed_nodes) # (v < g.number_of_fixed_nodes)

\* ordering lists every index of the free range exactly once and nothing else
IsPermutationOfFreeRange(g, ordering) ==
    /\ \A k \in 1..Len(ordering) : ordering[k] \in FreeRange(g)
    /\ \A x \in FreeRange(g) : Cardinality({k \in 1..Len(ordering) : ordering[k] = x}) = 1

\* C1: on every graph made by Graph::new and add_edge calls with any in-range
\* indices, compute_number_of_crossings_for_ordering called with the ascending
\* free range returns Ok with the count of
\* compute_number_of_crossings_with_default_ordering, and does not panic.
C1_AscendingOrderingAgreesWithDefault ==
    (op.name = "compute_for_ordering" /\ op.ordering = AscendingFreeRange(graph))
        => /\ ret.kind = "Ok"
           /\ ret = compute_number_of_crossings_with_default_ordering(graph)

\* C2: number_of_edges is the number of distinct undirected edges stored, and
\* add_edge returns true exactly when the edge was absent before the call,
\* number_of_edges growing by one on exactly those calls.
C2_EdgeCountIsNumberOfStoredEdges ==
    /\ graph.number_of_edges = Cardinality(StoredEdges(graph))
    /\ (op.name = "add_edge" /\ ret.kind = "Ok")
          => /\ ret.val = ~op.existed
             /\ graph.number_of_edges =
                    op.edges_before + (IF op.existed THEN 0 ELSE 1)

\* C3: the adjacency structure is symmetric in every reachable state, and after
\* an add_edge(i, j) that returned Ok, does_edge_exist answers true for (i, j)
\* and for (j, i).
C3_AdjacencyIsSymmetric ==
    /\ \A u \in 0..(graph.number_of_nodes - 1), v \in 0..(graph.number_of_nodes - 1) :
          (v \in graph.adjacency_list[u]) <=> (u \in graph.adjacency_list[v])
    /\ (op.name = "add_edge" /\ ret.kind = "Ok")
          => /\ does_edge_exist(graph, op.index1, op.index2) = Ok(TRUE)
             /\ does_edge_exist(graph, op.index2, op.index1) = Ok(TRUE)

\* C3 happens: after an add_edge that added nothing to the count (it failed or
\* stored a loop), an add_edge of two different nodes has returned Ok(true)
C3_Witness ==
    /\ op.name = "add_edge"
    /\ ret = Ok(TRUE)
    /\ op.index1 # op.index2
    /\ graph.number_of_edges = 1
    /\ op.existed = FALSE
    /\ adds = 2

\* C10: compute_number_of_crossings_for_ordering returns Err(ValueError) for
\* every ordering that is not a permutation of the free range, and Ok(count)
\* for every permutation of it when all edges are fixed-free.
C10_OrderingValidated ==
    op.name = "compute_for_ordering"
        => /\ ~IsPermutationOfFreeRange(graph, op.ordering) => ret = Err("ValueError")
           /\ (IsPermutationOfFreeRange(graph, op.ordering) /\ AllEdgesFixedFree(graph))
                 => ret.kind = "Ok"

\* C10 happens: an ordering of the right length that names one free node twice
\* has been refused on a graph that has edges
C10_Witness ==
    /\ op.name = "compute_for_ordering"
    /\ Len(op.ordering) = graph.number_of_free_nodes
    /\ graph.number_of_free_nodes = 2
    /\ op.ordering[1] = op.ordering[2]
    /\ op.ordering[1] \in FreeRange(graph)
    /\ graph.number_of_edges > 0
    /\ ret = Err("ValueError")

----------------------------------------------------------------------------
(* SpecNoCrossing: GraphBuilder::build_graph_with_fixed_nodes_and_no_crossings *)

\* what SliceRandom::shuffle can leave in a vector holding the elements of S
Shuffles(S) ==
    {q \in [1..Cardinality(S) -> S] : \A x \in S : \E k \in 1..Cardinality(S) : q[k] = x}

\* Vec::get with the index counted from 0
get(vec, index) == IF index < Len(vec) THEN Some(vec[index + 1]) ELSE None

InitNoCrossing ==
    /\ \E number_of_fixed_nodes \in 0..MaxNoCrossing :
          args = [NoArgs EXCEPT !.number_of_fixed_nodes = number_of_fixed_nodes]
    /\ graph = Graph_new(0, 0)
    /\ op = NoOp
    /\ ret = NoResult
    /\ pc = "nc_entry"
    /\ adds = 0
    /\ BuilderLocalsIdle

\* Graph::new, the collect of the free range and its shuffle
NC_New ==
    /\ pc = "nc_entry"
    /\ graph' = Graph_new(args.number_of_fixed_nodes, args.number_of_fixed_nodes)
    /\ randomly_ordered_free_nodes' \in
           Shuffles(args.number_of_fixed_nodes..(2 * args.number_of_fixed_nodes - 1))
    /\ pc' = "nc_range"
    /\ UNCHANGED <<args, op, ret, adds, fixed_node_index, loop_end, round, rejects,
                   read, p_line_info>>

\* the range 0..number_of_fixed_nodes - 1 of the for loop: the subtraction
\* panics where overflow is checked and wraps where it is not
NC_Range ==
    /\ pc = "nc_range"
    /\ \/ /\ args.number_of_fixed_nodes >= 1
          /\ loop_end' = args.number_of_fixed_nodes - 1
          /\ pc' = "nc_loop"
          /\ ret' = ret
       \/ /\ args.number_of_fixed_nodes < 1
          /\ loop_end' = loop_end
          /\ pc' = "nc_panicked"
          /\ ret' = Panic("attempt to subtract with overflow")
       \/ /\ args.number_of_fixed_nodes < 1
          /\ loop_end' = wrapping_sub(args.number_of_fixed_nodes, 1)
          /\ pc' = "nc_loop"
          /\ ret' = ret
    /\ fixed_node_index' = 0
    /\ UNCHANGED <<graph, args, op, adds, randomly_ordered_free_nodes, round, rejects,
                   read, p_line_info>>

\* one pass through the body of the for loop
NC_LoopBody ==
    /\ pc = "nc_loop"
    /\ fixed_node_index < loop_end
    /\ LET neighbor1 == get(randomly_ordered_free_nodes, fixed_node_index)
           neighbor2 == get(randomly_ordered_free_nodes, fixed_node_index + 1)
       IN  IF ~neighbor1.some \/ ~neighbor2.some
           THEN /\ ret' = Panic("Must exist")
                /\ pc' = "nc_panicked"
                /\ UNCHANGED <<graph, fixed_node_index>>
           ELSE LET first == add_edge(graph, neighbor1.val, fixed_node_index)
                    second == add_edge(first.graph, neighbor2.val, fixed_node_index)
                IN  IF first.ret.kind # "Ok"
                    THEN /\ ret' = Panic("called Result::unwrap() on an Err value")
                         /\ pc' = "nc_panicked"
                         /\ UNCHANGED <<graph, fixed_node_index>>
                    ELSE IF second.ret.kind # "Ok"
                    THEN /\ ret' = Panic("called Result::unwrap() on an Err value")
                         /\ pc' = "nc_panicked"
                         /\ graph' = first.graph
                         /\ UNCHANGED fixed_node_index
                    ELSE /\ graph' = second.graph
                         /\ fixed_node_index' = fixed_node_index + 1
                         /\ UNCHANGED <<ret, pc>>
    /\ UNCHANGED <<args, op, adds, randomly_ordered_free_nodes, loop_end, round,
                   rejects, read, p_line_info>>

\* the edge added after the loop, and the return of the graph
NC_LastEdge ==
    /\ pc = "nc_loop"
    /\ fixed_node_index >= loop_end
    /\ IF Len(randomly_ordered_free_nodes) = 0
       THEN /\ ret' = Panic("called Option::unwrap() on a None value")
            /\ pc' = "nc_panicked"
            /\ UNCHANGED graph
       ELSE \/ /\ args.number_of_fixed_nodes < 1
               /\ ret' = Panic("attempt to subtract with overflow")
               /\ pc' = "nc_panicked"
               /\ UNCHANGED graph
            \/ LET last == randomly_ordered_free_nodes[Len(randomly_ordered_free_nodes)]
                   r == add_edge(graph, last, wrapping_sub(args.number_of_fixed_nodes, 1))
               IN  IF r.ret.kind # "Ok"
                   THEN /\ ret' = Panic("called Result::unwrap() on an Err value")
                        /\ pc' = "nc_panicked"
                        /\ UNCHANGED graph
                   ELSE /\ graph' = r.graph
                        /\ ret' = Ok("Graph")
                        /\ pc' = "nc_returned"
    /\ UNCHANGED <<args, op, adds, randomly_ordered_free_nodes, fixed_node_index,
                   loop_end, round, rejects, read, p_line_info>>

\* the caller counts the crossings of the returned graph for the shuffled order
NC_ComputeForOrdering ==
    /\ pc = "nc_returned"
    /\ ret' = compute_number_of_crossings_for_ordering(graph, randomly_ordered_free_nodes)
    /\ op' = [NoOp EXCEPT !.name = "compute_for_ordering",
                          !.ordering = randomly_ordered_free_nodes]
    /\ pc' = "nc_queried"
    /\ UNCHANGED <<graph, args, adds, randomly_ordered_free_nodes, fixed_node_index,
                   loop_end, round, rejects, read, p_line_info>>

NextNoCrossing ==
    \/ NC_New
    \/ NC_Range
    \/ NC_LoopBody
    \/ NC_LastEdge
    \/ NC_ComputeForOrdering

SpecNoCrossing == InitNoCrossing /\ [][NextNoCrossing]_vars

\* C4: for every F >= 1 and every shuffle p, the graph built joins fixed node i
\* to p[i] and p[i+1] for i < F-1 and fixed node F-1 to p[F-1], and
\* compute_number_of_crossings_for_ordering(p) returns 0 on it.
C4_ShuffledOrderHasNoCrossings ==
    (pc \in {"nc_returned", "nc_queried"} /\ args.number_of_fixed_nodes >= 1)
        => /\ \A i \in 0..(args.number_of_fixed_nodes - 2) :
                 graph.adjacency_list[i] = {randomly_ordered_free_nodes[i + 1],
                                            randomly_ordered_free_nodes[i + 2]}
           /\ graph.adjacency_list[args.number_of_fixed_nodes - 1] =
                 {randomly_ordered_free_nodes[args.number_of_fixed_nodes]}
           /\ pc = "nc_queried" => ret = Ok(0)

\* C4 happens: three fixed nodes, a shuffle that is not the ascending order (the
\* default ordering does cross), and the count for the shuffle has been returned
C4_Witness ==
    /\ pc = "nc_queried"
    /\ args.number_of_fixed_nodes = 3
    /\ randomly_ordered_free_nodes = <<5, 3, 4>>
    /\ compute_number_of_crossings_with_default_ordering(graph).val > 0
    /\ ret = Ok(0)

\* C5: the builder never fails: it panics for no argument, and for F = 0 it
\* returns the empty graph.
C5_NoCrossingBuilderNeverFails ==
    /\ pc # "nc_panicked"
    /\ ret.kind # "panic"
    /\ (pc = "nc_returned" /\ args.number_of_fixed_nodes = 0)
          => graph = Graph_new(0, 0)

----------------------------------------------------------------------------
(* SpecRandom: GraphBuilder::build_random_graph *)

InitRandom ==
    /\ \E number_of_fixed_nodes \in 0..MaxFixed, number_of_free_nodes \in 0..MaxFree,
          number_of_edges \in 0..(MaxFixed * MaxFree + 1) :
          args = [number_of_fixed_nodes |-> number_of_fixed_nodes,
                  number_of_free_nodes |-> number_of_free_nodes,
                  number_of_edges |-> number_of_edges]
    /\ graph = Graph_new(0, 0)
    /\ op = NoOp
    /\ ret = NoResult
    /\ pc = "br_entry"
    /\ adds = 0
    /\ BuilderLocalsIdle

\* the feasibility test, skipped when the product overflows, and Graph::new
BR_Check ==
    /\ pc = "br_entry"
    /\ LET maximum_number_of_edges ==
               checked_mul(args.number_of_fixed_nodes, args.number_of_free_nodes)
       IN  IF maximum_number_of_edges.some
              /\ args.number_of_edges > maximum_number_of_edges.val
           THEN /\ ret' = Err("ValueError")
                /\ pc' = "br_failed"
                /\ UNCHANGED graph
           ELSE /\ graph' = Graph_new(args.number_of_fixed_nodes, args.number_of_free_nodes)
                /\ pc' = "br_loop"
                /\ UNCHANGED ret
    /\ round' = 0
    /\ UNCHANGED <<args, op, adds, randomly_ordered_free_nodes, fixed_node_index,
                   loop_end, rejects, read, p_line_info>>

\* one pass through the inner loop: two draws and an add_edge; a new edge ends
\* the inner loop, a duplicate repeats it (gen_range panics on an empty range)
BR_Draw ==
    /\ pc = "br_loop"
    /\ round < args.number_of_edges
    /\ IF graph.number_of_fixed_nodes = 0
          \/ graph.number_of_fixed_nodes >= graph.number_of_nodes
       THEN /\ ret' = Panic("cannot sample empty range")
            /\ pc' = "br_panicked"
            /\ UNCHANGED <<graph, op, round, rejects>>
       ELSE \E fixed_index \in 0..(graph.number_of_fixed_nodes - 1),
               free_node_index \in graph.number_of_fixed_nodes..(graph.number_of_nodes - 1) :
               LET r == add_edge(graph, free_node_index, fixed_index)
               IN  /\ op' = [NoOp EXCEPT !.name = "add_edge",
                                         !.index1 = free_node_index,
                                         !.index2 = fixed_index,
                                         !.existed = fixed_index \in
                                             graph.adjacency_list[free_node_index],
                                         !.edges_before = graph.number_of_edges]
                   /\ IF r.ret.kind = "Err"
                      THEN /\ ret' = r.ret
                           /\ pc' = "br_failed"
                           /\ UNCHANGED <<graph, round, rejects>>
                      ELSE IF r.ret.val
                      THEN /\ graph' = r.graph
                           /\ round' = round + 1
                           /\ UNCHANGED <<ret, pc, rejects>>
                      ELSE /\ rejects < MaxRejects
                           /\ graph' = r.graph
                           /\ rejects' = rejects + 1
                           /\ UNCHANGED <<ret, pc, round>>
    /\ UNCHANGED <<args, adds, randomly_ordered_free_nodes, fixed_node_index, loop_end,
                   read, p_line_info>>

\* the outer loop has run number_of_edges times: Ok(graph)
BR_Return ==
    /\ pc = "br_loop"
    /\ round >= args.number_of_edges
    /\ ret' = Ok("Graph")
    /\ pc' = "br_returned"
    /\ UNCHANGED <<graph, args, op, adds, randomly_ordered_free_nodes, fixed_node_index,
                   loop_end, round, rejects, read, p_line_info>>

NextRandom ==
    \/ BR_Check
    \/ BR_Draw
    \/ BR_Return

SpecRandom == InitRandom /\ [][NextRandom]_vars

\* C9: build_random_graph fails with ValueError when number_of_edges exceeds
\* fixed * free, and every graph it returns has exactly number_of_edges edges,
\* each joining a fixed index to a free index, whatever is drawn.
C9_RandomGraphHasRequestedEdges ==
    /\ (pc # "br_entry"
          /\ args.number_of_edges > args.number_of_fixed_nodes * args.number_of_free_nodes)
          => (pc = "br_failed" /\ ret = Err("ValueError"))
    /\ pc = "br_returned"
          => /\ graph.number_of_fixed_nodes = args.number_of_fixed_nodes
             /\ graph.number_of_free_nodes = args.number_of_free_nodes
             /\ graph.number_of_edges = args.number_of_edges
             /\ Cardinality(StoredEdges(graph)) = args.number_of_edges
             /\ AllEdgesFixedFree(graph)

\* C9 happens: a graph of three edges has been returned after duplicates were
\* drawn and rejected
C9_Witness ==
    /\ pc = "br_returned"
    /\ args.number_of_edges = 3
    /\ rejects = 2
    /\ graph.number_of_edges = 3

----------------------------------------------------------------------------
(* SpecFile: GraphBuilder::build_graph_from_file *)
(* A line is the sequence of its characters, each a string of length one.  *)

\* the line "" : an empty line
L_blank == <<>>
\* the line "c x" : a comment
L_comment == <<"c", " ", "x">>
\* the line "p ocm 2 2 4"
L_p_2_2_4 == <<"p", " ", "o", "c", "m", " ", "2", " ", "2", " ", "4">>
\* the line "p ocm 2 2 3"
L_p_2_2_3 == <<"p", " ", "o", "c", "m", " ", "2", " ", "2", " ", "3">>
\* the line "p ocm 1 1 1"
L_p_1_1_1 == <<"p", " ", "o", "c", "m", " ", "1", " ", "1", " ", "1">>
\* the line "p ocm 2 2" : a header of four tokens
L_p_short == <<"p", " ", "o", "c", "m", " ", "2", " ", "2">>
\* the line "p ocm 2 x 4" : a header whose free count is no number
L_p_bad_count == <<"p", " ", "o", "c", "m", " ", "2", " ", "x", " ", "4">>
\* the line "1 1"
L_1_1 == <<"1", " ", "1">>
\* the line "1 2"
L_1_2 == <<"1", " ", "2">>
\* the line "2 1"
L_2_1 == <<"2", " ", "1">>
\* the line "2 2"
L_2_2 == <<"2", " ", "2">>
\* the line "0 1" : an edge line with the index 0
L_0_1 == <<"0", " ", "1">>
\* the line "1 x" : an edge line with a token that is no number
L_1_x == <<"1", " ", "x">>
\* the line "1 2 3" : an edge line of three tokens
L_1_2_3 == <<"1", " ", "2", " ", "3">>

\* the lines a file is made of
LineSet ==
    {L_blank, L_comment, L_p_2_2_4, L_p_2_2_3, L_p_1_1_1,
     L_p_short, L_p_bad_count, L_1_1, L_1_2, L_2_1,
     L_2_2, L_0_1, L_1_x, L_1_2_3}

Digits == {"0", "1", "2", "3", "4", "5", "6", "7", "8", "9"}

digit_value(ch) ==
    CASE ch = "0" -> 0 [] ch = "1" -> 1 [] ch = "2" -> 2 [] ch = "3" -> 3
      [] ch = "4" -> 4 [] ch = "5" -> 5 [] ch = "6" -> 6 [] ch = "7" -> 7
      [] ch = "8" -> 8 [] ch = "9" -> 9

\* str::starts_with(char)
starts_with(line, ch) == Len(line) > 0 /\ line[1] = ch

RECURSIVE split(_)
\* str::split(' '): the pieces between the spaces, empty pieces included
split(line) ==
    IF \A k \in 1..Len(line) : line[k] # " "
    THEN <<line>>
    ELSE LET k == CHOOSE i \in 1..Len(line) :
                      line[i] = " " /\ \A m \in 1..(i - 1) : line[m] # " "
         IN  <<SubSeq(line, 1, k - 1)>> \o split(SubSeq(line, k + 1, Len(line)))

RECURSIVE decimal_value(_)
\* the number a sequence of digits denotes
decimal_value(digits) ==
    IF Len(digits) = 0 THEN 0
    ELSE 10 * decimal_value(SubSeq(digits, 1, Len(digits) - 1))
             + digit_value(digits[Len(digits)])

\* str::parse::<usize>(): an optional '+', then one or more digits, no overflow
parse_usize(word) ==
    LET digits == IF Len(word) > 0 /\ word[1] = "+" THEN Tail(word) ELSE word
    IN  IF Len(digits) = 0 \/ \E k \in 1..Len(digits) : digits[k] \notin Digits
        THEN None
        ELSE IF decimal_value(digits) > USIZE_MAX THEN None
        ELSE Some(decimal_value(digits))

parse_edge_line(line) ==
    LET words == split(line)
    IN  IF Len(words) # 2 THEN None
        ELSE LET fixed_option == parse_usize(words[1])
                 free_option == parse_usize(words[2])
             IN  IF ~fixed_option.some \/ ~free_option.some THEN None
                 ELSE Some(<<fixed_option.val, free_option.val>>)

PLineInfo_build(p_line) ==
    IF ~starts_with(p_line, "p") THEN None
    ELSE LET words == split(p_line)
         IN  IF Len(words) # 5 THEN None
             ELSE LET number_of_fixed_nodes == parse_usize(words[3])
                      number_of_free_nodes == parse_usize(words[4])
                      number_of_edges == parse_usize(words[5])
                  IN  IF ~number_of_fixed_nodes.some \/ ~number_of_free_nodes.some
                         \/ ~number_of_edges.some
                      THEN None
                      ELSE Some([descriptor |-> words[2],
                                 number_of_fixed_nodes |-> number_of_fixed_nodes.val,
                                 number_of_free_nodes |-> number_of_free_nodes.val,
                                 number_of_edges |-> number_of_edges.val])

InitFile ==
    /\ args = NoArgs
    /\ graph = Graph_new(0, 0)
    /\ op = NoOp
    /\ ret = NoResult
    /\ pc = "bf_entry"
    /\ adds = 0
    /\ BuilderLocalsIdle

\* File::open(filename)?
BF_Open ==
    /\ pc = "bf_entry"
    /\ \/ /\ ret' = Err("IoError")
          /\ pc' = "bf_failed"
       \/ /\ ret' = ret
          /\ pc' = "bf_find"
    /\ UNCHANGED <<graph, args, op, adds, randomly_ordered_free_nodes, fixed_node_index,
                   loop_end, round, rejects, read, p_line_info>>

\* lines.find(..) takes one more line: a line that does not start with 'p' is
\* passed over; the first that does goes to PLineInfo::build and Graph::new
BF_FindPLine ==
    /\ pc = "bf_find"
    /\ Len(read) < MaxLines
    /\ \E line \in LineSet :
          /\ read' = Append(read, line)
          /\ IF ~starts_with(line, "p")
             THEN UNCHANGED <<graph, ret, pc, p_line_info>>
             ELSE LET built == PLineInfo_build(line)
                  IN  IF ~built.some
                      THEN /\ ret' = Err("ParseError")
                           /\ pc' = "bf_failed"
                           /\ UNCHANGED <<graph, p_line_info>>
                      ELSE /\ p_line_info' = built
                           /\ graph' = Graph_new(built.val.number_of_fixed_nodes,
                                                 built.val.number_of_free_nodes)
                           /\ pc' = "bf_edges"
                           /\ UNCHANGED ret
    /\ UNCHANGED <<args, op, adds, randomly_ordered_free_nodes, fixed_node_index,
                   loop_end, round, rejects>>

\* lines.find(..) reaches the end of the file
BF_NoPLine ==
    /\ pc = "bf_find"
    /\ ret' = Err("ParseError")
    /\ pc' = "bf_failed"
    /\ UNCHANGED <<graph, args, op, adds, randomly_ordered_free_nodes, fixed_node_index,
                   loop_end, round, rejects, read, p_line_info>>

\* one pass through the for loop over the remaining lines; the subtractions
\* edge.0 - 1 and edge.1 - 1 panic on 0 where overflow is checked and wrap
\* where it is not
BF_EdgeLine ==
    /\ pc = "bf_edges"
    /\ Len(read) < MaxLines
    /\ \E line \in LineSet :
          /\ read' = Append(read, line)
          /\ IF starts_with(line, "c") \/ Len(line) = 0
             THEN UNCHANGED <<graph, op, ret, pc>>
             ELSE LET edge == parse_edge_line(line)
                  IN  IF ~edge.some
                      THEN /\ ret' = Err("ParseError")
                           /\ pc' = "bf_failed"
                           /\ UNCHANGED <<graph, op>>
                      ELSE \/ /\ edge.val[1] < 1 \/ edge.val[2] < 1
                              /\ ret' = Panic("attempt to subtract with overflow")
                              /\ pc' = "bf_panicked"
                              /\ UNCHANGED <<graph, op>>
                           \/ LET node_index1 == wrapping_sub(edge.val[1], 1)
                                  node_index2 == wrapping_sub(edge.val[2], 1)
                                  r == add_edge(graph, node_index1, node_index2)
                              IN  /\ op' = [NoOp EXCEPT !.name = "add_edge",
                                                        !.index1 = node_index1,
                                                        !.index2 = node_index2,
                                                        !.edges_before = graph.number_of_edges]
                                  /\ IF r.ret.kind = "Err"
                                     THEN /\ ret' = r.ret
                                          /\ pc' = "bf_failed"
                                          /\ UNCHANGED graph
                                     ELSE /\ graph' = r.graph
                                          /\ UNCHANGED <<ret, pc>>
    /\ UNCHANGED <<args, adds, randomly_ordered_free_nodes, fixed_node_index, loop_end,
                   round, rejects, p_line_info>>

\* the for loop reaches the end of the file: the edge counts are compared
BF_EndOfFile ==
    /\ pc = "bf_edges"
    /\ IF p_line_info.val.number_of_edges # graph.number_of_edges
       THEN /\ ret' = Err("ParseError")
            /\ pc' = "bf_failed"
       ELSE /\ ret' = Ok("Graph")
            /\ pc' = "bf_returned"
    /\ UNCHANGED <<graph, args, op, adds, randomly_ordered_free_nodes, fixed_node_index,
                   loop_end, round, rejects, read, p_line_info>>

NextFile ==
    \/ BF_Open
    \/ BF_FindPLine
    \/ BF_NoPLine
    \/ BF_EdgeLine
    \/ BF_EndOfFile

SpecFile == InitFile /\ [][NextFile]_vars

----------------------------------------------------------------------------
(* Claims about build_graph_from_file, checked under SpecFile *)

\* build_graph_from_file has ended, one way or another
FileRunEnded == pc \in {"bf_returned", "bf_failed", "bf_panicked"}

\* a line that is neither blank nor a comment
IsContentLine(line) == Len(line) > 0 /\ line[1] # "c"

\* a token that is a decimal number
IsNumber(word) == Len(word) > 0 /\ \A k \in 1..Len(word) : word[k] \in Digits

\* the format's header: p, a descriptor and three counts
IsWellFormedHeader(line) ==
    /\ Len(split(line)) = 5
    /\ split(line)[1] = <<"p">>
    /\ \A k \in 3..5 : IsNumber(split(line)[k])

\* the format's edge line: two integers, both at least 1
IsTwoPositiveIntegers(line) ==
    /\ Len(split(line)) = 2
    /\ \A k \in 1..2 : IsNumber(split(line)[k]) /\ decimal_value(split(line)[k]) >= 1

\* the first content line of the file is a well-formed header
HeaderIsFirstContentLine(file) ==
    \E k \in 1..Len(file) :
        /\ IsWellFormedHeader(file[k])
        /\ \A m \in 1..(k - 1) : ~IsContentLine(file[m])

\* C6: a file is accepted only if its header is its first content line, and a
\* file in which no well-formed header was found fails with ParseError.
C6_HeaderMustComeFirst ==
    /\ pc = "bf_returned" => HeaderIsFirstContentLine(read)
    /\ (FileRunEnded /\ ret # Err("IoError")
           /\ \A k \in 1..Len(read) : ~IsWellFormedHeader(read[k]))
          => ret = Err("ParseError")

\* C7: once the header is read, a content line that is not two positive
\* integers ends the construction with Err(ParseError), never with a panic.
C7_MalformedEdgeLineIsParseError ==
    /\ ret.kind # "panic"
    /\ (p_line_info.some
           /\ \E k \in 1..(Len(read) - 1) : starts_with(read[k], "p")
           /\ IsContentLine(read[Len(read)])
           /\ ~IsTwoPositiveIntegers(read[Len(read)]))
          => (pc = "bf_failed" /\ ret = Err("ParseError"))

\* C8: a graph is returned only when the number of distinct edges inserted and
\* number_of_edges equal the declared count; under the header p ocm 2 2 4 the
\* lines 1 1, 1 2, 2 1, 2 2 give a graph with number_of_edges = 4, and under
\* p ocm 2 2 3 they fail with ParseError.
C8_ReturnedGraphHasDeclaredEdgeCount ==
    /\ pc = "bf_returned"
          => /\ graph.number_of_edges = p_line_info.val.number_of_edges
             /\ Cardinality(StoredEdges(graph)) = p_line_info.val.number_of_edges
    /\ (FileRunEnded /\ read = <<L_p_2_2_4, L_1_1, L_1_2, L_2_1, L_2_2>>)
          => (pc = "bf_returned" /\ graph.number_of_edges = 4)
    /\ (FileRunEnded /\ read = <<L_p_2_2_3, L_1_1, L_1_2, L_2_1, L_2_2>>)
          => ret = Err("ParseError")

====
